---- MODULE Spec2Model ----
(***************************************************************************)
(* PypiProxy (fetch_pip_metadata/pypi_proxy.py): the launcher of a         *)
(* mitmproxy child.  A call of the constructor ("start") allocates a port  *)
(* with a probe socket, spawns the child, polls it through urlopen and     *)
(* merges two PEM files into <HOME>/.ca-cert.pem; kill() ("stop") signals  *)
(* the child.  The operating system, the child and the polled endpoint are *)
(* the environment: their choices are nondeterministic.                    *)
(***************************************************************************)
EXTENDS Integers, Sequences, FiniteSets, TLC

\* ------------------------------------------------------------------ bounds
NumPorts == 2          \* ephemeral ports the operating system hands out
MinPort == 9           \* the lowest of them (9, 10: one and two digits)
MaxLen == 2            \* longest certificate file of the enumerated inputs
MaxKills == 2          \* kill() calls on one handle
MaxOps == 2            \* blocking socket operations of one urlopen (connect, read)

\* ------------------------------------------------------- program constants
WaitTimeout == 10      \* self.wait("http://pypi.org", 10)
RequestTimeout == 5    \* urllib.request.urlopen(req, None, 5)
SleepTime == 1         \* time.sleep(1)
ErrorStatus == 400     \* if res.status < 400

Calls == {"A", "B"}
Ports == MinPort .. (MinPort + NumPorts - 1)
NoPort == 0
\* a path of the file system: no file, or a file and its content
Absent == [exists |-> FALSE, data |-> <<>>]
File(t) == [exists |-> TRUE, data |-> t]
NoText == <<>>
NoEnv == [HOME |-> ""]
NoPath == "nopath"
Closed == -1

\* ------------------------------------------------------------------- texts
CR == "\r"
LF == "\n"
Chars == {"a", CR, LF}

RECURSIVE TextsOfLen(_)
TextsOfLen(n) ==
    IF n = 0 THEN {<<>>}
    ELSE {Append(t, c) : t \in TextsOfLen(n - 1), c \in Chars}

\* every non-empty file content of at most n characters
Texts(n) == UNION {TextsOfLen(k) : k \in 1 .. n}

\* f.read() of a file opened "r": universal newlines, "\r\n" and a lone "\r"
\* are both read as "\n"
RECURSIVE TextRead(_)
TextRead(bytes) ==
    IF bytes = <<>> THEN <<>>
    ELSE IF Head(bytes) = CR
         THEN IF Len(bytes) >= 2 /\ bytes[2] = LF
              THEN <<LF>> \o TextRead(SubSeq(bytes, 3, Len(bytes)))
              ELSE <<LF>> \o TextRead(Tail(bytes))
         ELSE <<Head(bytes)>> \o TextRead(Tail(bytes))

\* os.linesep of the platform the package is built for (POSIX)
LineSep == <<LF>>

\* what f.write(text) of a file opened "w" hands to the file: every "\n"
\* becomes os.linesep
RECURSIVE TextWrite(_)
TextWrite(text) ==
    IF text = <<>> THEN <<>>
    ELSE (IF Head(text) = LF THEN LineSep ELSE <<Head(text)>>)
         \o TextWrite(Tail(text))

\* a write of data at offset off of a file: bytes before off are kept (a hole
\* left by another writer's truncation reads as NUL), bytes under data are
\* overwritten, bytes after it are kept
NUL == "\\0"
WriteAtEnd(content, off, data) == content \o data
WriteAt(content, off, data) ==
    LET end == off + Len(data)
        n == IF end > Len(content) THEN end ELSE Len(content)
    IN [i \in 1 .. n |->
          IF i > off /\ i <= end THEN data[i - off]
          ELSE IF i <= Len(content) THEN content[i]
          ELSE NUL]

\* open(path, "w"): the file is created or truncated to nothing
OpenAppend(file) == File(file.data)
OpenForWrite(file) == File(<<>>)

\* --------------------------------------------------------------- the paths
Home == "/home/u"
Join(dir, rel) == dir \o "/" \o rel
MitmCaRel == ".mitmproxy/mitmproxy-ca-cert.pem"
BundleRel == ".ca-cert.pem"
CertifiPath == "certifi/cacert.pem"
MitmCaPath(env) == Join(env.HOME, MitmCaRel)
BundlePath(env, path) == Join(env.HOME, path)
Paths == {MitmCaPath([HOME |-> Home]), CertifiPath, BundlePath([HOME |-> Home], BundleRel)}

\* ------------------------------------------------------------ command line
DigitChars == <<"0", "1", "2", "3", "4", "5", "6", "7", "8", "9">>

\* str(n) of a non-negative integer
RECURSIVE Str(_)
Str(n) ==
    IF n < 10 THEN DigitChars[n + 1]
    ELSE Str(n \div 10) \o DigitChars[(n % 10) + 1]

CommandLineArgsFirst(executable, port, args) ==
    <<executable>> \o args \o <<"--listen-port", Str(port), "--anticache">>
CommandLine(executable, port, args) ==
    <<executable, "--listen-port", Str(port), "--anticache">> \o args

Installed == {"mitmdump"}
Executables == {"mitmdump", "nosuch"}
ArgLists == {<<>>, <<"-q">>, <<"--set", "x=1">>, <<"x=1", "--set">>}

\* ---------------------------------------------------------------- endpoint
\* What urlopen(req, None, 5) can end with.  A response is returned with its
\* status; URLError covers a refused connection, a timeout while connecting
\* and HTTPError (a subclass); a timeout or a reset while the response is
\* read is raised as it is, not as a URLError.
Statuses == {200, 399, 400, 502}
Response(s) == [type |-> "response", status |-> s]
Raised(t) == [type |-> t, status |-> 0]
Refused == Raised("URLError")
Outcomes ==
    {Response(s) : s \in Statuses}
    \cup {Raised(t) : t \in {"URLError", "HTTPError", "TimeoutError", "ConnectionResetError"}}

\* except urllib.error.URLError: the exception types the handler catches
CaughtNothing(type) == FALSE
CaughtByWait(type) == type \in {"URLError", "HTTPError"}

\* if res.status < 400: break
IsSuccessAny(status) == TRUE
IsSuccess(status) == status < ErrorStatus

FakeEndpoint(n) == [kind |-> "fake", okAt |-> n]
BrokenEndpoint(n) == [kind |-> "broken", okAt |-> n]
RealEndpoint == [kind |-> "real", okAt |-> 0]

VARIABLES
    pc,              \* where each call of the constructor, then the handle, is
    callers,         \* the calls the surrounding program makes
    input,           \* executable and args of each call
    self_env,        \* self.env
    sock,            \* port the open probe socket is bound to, or NoPort
    lport,           \* find_free_port's local port
    port,            \* self.port
    argv,            \* command line of self.proc
    child,           \* the child: "none", "spawned", "listening", "exited"
    signals,         \* SIGKILLs sent to the child
    kills,           \* kill() calls made on the handle
    clock,           \* time.time() as the call reads it
    deadline,        \* wait's local timeout
    requests,        \* urlopen calls issued
    mitmproxy_cacert,\* generate_ca_bundle's locals
    certifi_cacert,
    offset,          \* file position of the bundle opened "w", or Closed
    cafile,          \* self.cafile
    raising,         \* the exception in flight inside wait, or "none"
    err,             \* the exception that left the constructor
    fs,              \* the files, by path
    endpoint,        \* what answers urlopen
    fsAtStart,       \* history: the bundle file when the call began
    osPort,          \* history: the port the operating system bound the probe to
    racy,            \* history: the probe got a port another call had released
    returned,        \* history: the calls in the order they returned a handle
    killError,       \* kill() raised (a signal sent to a child already reaped)
    written,         \* history: everything the call has written to the bundle
    overlap,         \* history: a call opened the bundle while another had it open
    binds,           \* history: bind calls made
    spawns,          \* history: Popen calls made
    poll,            \* history of the wait just made: sleeps made, when the last
                     \* attempt started and ended, how it ended
    serial           \* the surrounding program makes one call at a time

vars == <<pc, callers, input, self_env, sock, lport, port, argv, child, signals,
          kills, clock, deadline, requests, mitmproxy_cacert, certifi_cacert,
          offset, cafile, raising, err, fs, endpoint, fsAtStart, osPort, racy,
          returned, killError, written, overlap, binds, spawns, poll, serial>>

NoError == [type |-> "none", at |-> "none"]
Error(t, where) == [type |-> t, at |-> where]

\* ports a socket is bound to right now: open probe sockets, listening children
Held == {sock[o] : o \in Calls} \cup {port[o] : o \in {c \in Calls : child[c] = "listening"}}
FreePorts == Ports \ Held

NoOutcome == Raised("none")
NoPoll == [sleeps |-> 0, started |-> 0, ended |-> 0, last |-> NoOutcome]

InitWith(cs, ser, inputs, files, ep) ==
    /\ callers = cs
    /\ serial = ser
    /\ poll = [p \in Calls |-> NoPoll]
    /\ input \in inputs
    /\ fs \in files
    /\ endpoint \in ep
    /\ pc = [p \in Calls |-> "idle"]
    /\ self_env = [p \in Calls |-> NoEnv]
    /\ sock = [p \in Calls |-> NoPort]
    /\ lport = [p \in Calls |-> NoPort]
    /\ port = [p \in Calls |-> NoPort]
    /\ argv = [p \in Calls |-> <<>>]
    /\ child = [p \in Calls |-> "none"]
    /\ signals = [p \in Calls |-> 0]
    /\ kills = [p \in Calls |-> 0]
    /\ clock = [p \in Calls |-> 0]
    /\ deadline = [p \in Calls |-> 0]
    /\ requests = [p \in Calls |-> 0]
    /\ mitmproxy_cacert = [p \in Calls |-> NoText]
    /\ certifi_cacert = [p \in Calls |-> NoText]
    /\ offset = [p \in Calls |-> Closed]
    /\ cafile = [p \in Calls |-> NoPath]
    /\ raising = [p \in Calls |-> "none"]
    /\ err = [p \in Calls |-> NoError]
    /\ fsAtStart = [p \in Calls |-> Absent]
    /\ osPort = [p \in Calls |-> NoPort]
    /\ racy = [p \in Calls |-> FALSE]
    /\ returned = <<>>
    /\ killError = [p \in Calls |-> FALSE]
    /\ written = [p \in Calls |-> <<>>]
    /\ overlap = FALSE
    /\ binds = [p \in Calls |-> 0]
    /\ spawns = [p \in Calls |-> 0]

\* the locals of a call, dropped when the constructor is left
DropLocals(p) ==
    /\ lport' = [lport EXCEPT ![p] = NoPort]
    /\ deadline' = [deadline EXCEPT ![p] = 0]
    /\ clock' = [clock EXCEPT ![p] = 0]
    /\ mitmproxy_cacert' = [mitmproxy_cacert EXCEPT ![p] = NoText]
    /\ certifi_cacert' = [certifi_cacert EXCEPT ![p] = NoText]

\* an exception leaves the constructor: no handle is bound
RaiseAndGoOn(p, e) ==
    /\ pc' = [pc EXCEPT ![p] = "wait"]
    /\ err' = [err EXCEPT ![p] = e]
    /\ DropLocals(p)
Raise(p, e) ==
    /\ pc' = [pc EXCEPT ![p] = "failed"]
    /\ err' = [err EXCEPT ![p] = e]
    /\ DropLocals(p)

\* ------------------------------------------------------------ __init__
\* PypiProxy(executable, args, env): self.env = env
\* a program that makes its calls one at a time begins a call when no other
\* is under way
Start(p) ==
    /\ p \in callers
    /\ pc[p] = "idle"
    /\ serial => \A o \in Calls \ {p} : pc[o] \in {"idle", "done", "failed"}
    /\ self_env' = [self_env EXCEPT ![p] = input[p].env]
    /\ fsAtStart' = [fsAtStart EXCEPT ![p] = fs[BundlePath(input[p].env, BundleRel)]]
    /\ pc' = [pc EXCEPT ![p] = "bind"]
    /\ UNCHANGED <<callers, input, sock, lport, port, argv, child, signals, kills,
                   clock, deadline, requests, mitmproxy_cacert, certifi_cacert,
                   offset, cafile, raising, err, fs, endpoint, osPort, racy, returned,
                   killError, written, overlap, binds, spawns, poll, serial>>

\* find_free_port: socket(), bind(("", 0)), getsockname()[1].  The operating
\* system picks a port no socket is bound to; bind raises OSError when it has
\* none to give (the ports of the model can all be taken by other programs).
Bind(p) ==
    /\ pc[p] = "bind"
    /\ binds' = [binds EXCEPT ![p] = @ + 1]
    /\ \/ \E q \in FreePorts :
            /\ sock' = [sock EXCEPT ![p] = q]
            /\ lport' = [lport EXCEPT ![p] = q]
            /\ osPort' = [osPort EXCEPT ![p] = q]
            /\ racy' = [racy EXCEPT ![p] = \E o \in Calls \ {p} : port[o] = q]
            /\ pc' = [pc EXCEPT ![p] = "close"]
            /\ UNCHANGED <<err, deadline, clock, mitmproxy_cacert, certifi_cacert>>
       \/ /\ Raise(p, Error("OSError", "bind"))
          /\ UNCHANGED <<sock, osPort, racy>>
    /\ UNCHANGED <<callers, input, self_env, port, argv, child, signals, kills,
                   requests, offset, cafile, raising, fs, endpoint, fsAtStart, returned,
                   killError, written, overlap, spawns, poll, serial>>

\* what find_free_port returns: the port read back from the socket
ReturnedPortFixed(local) == MinPort
ReturnedPort(local) == local

\* sock.close(): the probe socket holds no port any more
SocketLeftOpen(bound) == bound
ClosedSocket(bound) == NoPort

\* find_free_port: sock.close(); return port -- self.port = ...
CloseSocket(p) ==
    /\ pc[p] = "close"
    /\ sock' = [sock EXCEPT ![p] = ClosedSocket(@)]
    /\ port' = [port EXCEPT ![p] = ReturnedPort(lport[p])]
    /\ lport' = [lport EXCEPT ![p] = NoPort]
    /\ pc' = [pc EXCEPT ![p] = "popen"]
    /\ UNCHANGED <<callers, input, self_env, argv, child, signals, kills, clock,
                   deadline, requests, mitmproxy_cacert, certifi_cacert, offset,
                   cafile, raising, err, fs, endpoint, fsAtStart, osPort, racy, returned,
                   killError, written, overlap, binds, spawns, poll, serial>>

\* self.proc = subprocess.Popen([...], env=env): raises when the executable
\* cannot be run
Popen(p) ==
    /\ pc[p] = "popen"
    /\ spawns' = [spawns EXCEPT ![p] = @ + 1]
    /\ \/ /\ input[p].executable \in Installed
          /\ argv' = [argv EXCEPT ![p] =
                        CommandLine(input[p].executable, port[p], input[p].args)]
          /\ child' = [child EXCEPT ![p] = "spawned"]
          /\ pc' = [pc EXCEPT ![p] = "wait"]
          /\ UNCHANGED <<err, lport, deadline, clock, mitmproxy_cacert, certifi_cacert>>
       \/ /\ input[p].executable \notin Installed
          /\ Raise(p, Error("FileNotFoundError", "popen"))
          /\ UNCHANGED <<argv, child>>
    /\ UNCHANGED <<callers, input, self_env, sock, port, signals, kills, requests,
                   offset, cafile, raising, fs, endpoint, fsAtStart, osPort, racy, returned,
                   killError, written, overlap, binds, poll, serial>>

\* ---------------------------------------------------------------- wait
\* timeout = time.time() + timeout; req = Request(test_url); req.set_proxy(...)
WaitEnter(p) ==
    /\ pc[p] = "wait"
    /\ deadline' = [deadline EXCEPT ![p] = clock[p] + WaitTimeout]
    /\ poll' = [poll EXCEPT ![p] = NoPoll]
    /\ pc' = [pc EXCEPT ![p] = "loop"]
    /\ UNCHANGED <<callers, input, self_env, sock, lport, port, argv, child, signals,
                   kills, clock, requests, mitmproxy_cacert, certifi_cacert, offset,
                   cafile, raising, err, fs, endpoint, fsAtStart, osPort, racy,
                   returned,
                   killError, written, overlap, binds, spawns, serial>>

\* while time.time() < timeout: another attempt, or wait returns and
\* __init__ goes on to generate_ca_bundle
AfterLoopRaising(now, limit) == IF now < limit THEN "urlopen" ELSE "propagate"
AfterLoopLate(now, limit) == IF now <= limit THEN "urlopen" ELSE "read_mitm"
AfterLoop(now, limit) == IF now < limit THEN "urlopen" ELSE "read_mitm"

LoopTest(p) ==
    /\ pc[p] = "loop"
    /\ pc' = [pc EXCEPT ![p] = AfterLoop(clock[p], deadline[p])]
    /\ UNCHANGED <<callers, input, self_env, sock, lport, port, argv, child, signals,
                   kills, clock, deadline, requests, mitmproxy_cacert, certifi_cacert,
                   offset, cafile, raising, err, fs, endpoint, fsAtStart, osPort, racy,
                   returned,
                   killError, written, overlap, binds, spawns, poll, serial>>

\* something accepts connections on 127.0.0.1:q
Listening(q) == \E o \in Calls : child[o] = "listening" /\ port[o] = q

\* the ways the n-th urlopen of a call can end, each with the time it took: a
\* fake endpoint refuses at once until attempt okAt and answers 200 from then
\* on; a broken one refuses until attempt okAt and from then on accepts and
\* drops the connection; through the real proxy anything can happen, the
\* timeout of 5 bounding each blocking socket operation of the attempt and not
\* the attempt; with nothing listening the connection is refused
Answers(p, n) ==
    CASE endpoint.kind = "fake" ->
           {<<IF n < endpoint.okAt THEN Refused ELSE Response(200), 0>>}
      [] endpoint.kind = "broken" ->
           {<<IF n < endpoint.okAt THEN Refused ELSE Raised("ConnectionResetError"), 0>>}
      [] endpoint.kind = "real" ->
           IF Listening(port[p])
           THEN Outcomes \X (0 .. MaxOps * RequestTimeout)
           ELSE {<<Refused, 0>>}

\* where the try statement goes once urlopen has ended: to the finally clause,
\* then out of the loop, round the loop, or out of wait with the exception
AfterAttempt(out) ==
    IF out.type = "response"
    THEN IF IsSuccess(out.status) THEN "sleep_break" ELSE "sleep_next"
    ELSE IF CaughtByWait(out.type) THEN "sleep_next" ELSE "sleep_raise"

\* try: res = urllib.request.urlopen(req, None, 5) ... except URLError: pass
Urlopen(p) ==
    /\ pc[p] = "urlopen"
    /\ requests' = [requests EXCEPT ![p] = @ + 1]
    /\ \E a \in Answers(p, requests[p] + 1) :
          /\ clock' = [clock EXCEPT ![p] = @ + a[2]]
          /\ poll' = [poll EXCEPT ![p] = [sleeps |-> @.sleeps, started |-> clock[p],
                                          ended |-> clock[p] + a[2], last |-> a[1]]]
          /\ pc' = [pc EXCEPT ![p] = AfterAttempt(a[1])]
          /\ raising' = [raising EXCEPT ![p] =
                           IF AfterAttempt(a[1]) = "sleep_raise" THEN a[1].type ELSE "none"]
    /\ UNCHANGED <<callers, input, self_env, sock, lport, port, argv, child, signals,
                   kills, deadline, mitmproxy_cacert, certifi_cacert, offset, cafile,
                   err, fs, endpoint, fsAtStart, osPort, racy, returned,
                   killError, written, overlap, binds, spawns, serial>>

\* finally: the sleep is made however the try statement was left
SleepUnlessBreak(state) == IF state = "sleep_break" THEN 0 ELSE SleepTime
SleepFor(state) == SleepTime

\* finally: time.sleep(1)
Sleep(p) ==
    /\ pc[p] \in {"sleep_break", "sleep_next", "sleep_raise"}
    /\ clock' = [clock EXCEPT ![p] = @ + SleepFor(pc[p])]
    /\ poll' = [poll EXCEPT ![p].sleeps = @ + 1]
    /\ pc' = [pc EXCEPT ![p] =
                CASE pc[p] = "sleep_break" -> "read_mitm"
                  [] pc[p] = "sleep_next" -> "loop"
                  [] pc[p] = "sleep_raise" -> "propagate"]
    /\ UNCHANGED <<callers, input, self_env, sock, lport, port, argv, child, signals,
                   kills, deadline, requests, mitmproxy_cacert, certifi_cacert, offset,
                   cafile, raising, err, fs, endpoint, fsAtStart, osPort, racy,
                   returned,
                   killError, written, overlap, binds, spawns, serial>>

\* the exception no handler caught leaves wait, and __init__ with it
Propagate(p) ==
    /\ pc[p] = "propagate"
    /\ poll' = [poll EXCEPT ![p] = NoPoll]
    /\ Raise(p, Error(raising[p], "wait"))
    /\ raising' = [raising EXCEPT ![p] = "none"]
    /\ UNCHANGED <<callers, input, self_env, sock, port, argv, child, signals, kills,
                   requests, offset, cafile, fs, endpoint, fsAtStart, osPort, racy,
                   returned,
                   killError, written, overlap, binds, spawns, serial>>

\* -------------------------------------------------- generate_ca_bundle
\* open(path, "r") raises FileNotFoundError when there is no file at path
OpenNeverFails(file) == FALSE
OpenFails(file) == ~file.exists

\* home = Path(self.env["HOME"]); with open(home / ".mitmproxy/...", "r") as f:
\*     mitmproxy_cacert = f.read()
ReadMitm(p) ==
    /\ pc[p] = "read_mitm"
    /\ poll' = [poll EXCEPT ![p] = NoPoll]
    /\ IF OpenFails(fs[MitmCaPath(self_env[p])])
       THEN Raise(p, Error("FileNotFoundError", "read_mitm"))
       ELSE /\ mitmproxy_cacert' =
                 [mitmproxy_cacert EXCEPT ![p] = TextRead(fs[MitmCaPath(self_env[p])].data)]
            /\ pc' = [pc EXCEPT ![p] = "read_certifi"]
            /\ UNCHANGED <<err, lport, deadline, clock, certifi_cacert>>
    /\ UNCHANGED <<callers, input, self_env, sock, port, argv, child, signals, kills,
                   requests, offset, cafile, raising, fs, endpoint, fsAtStart, osPort,
                   racy, returned,
                   killError, written, overlap, binds, spawns, serial>>

\* with open(certifi.where(), "r") as f: certifi_cacert = f.read()
ReadCertifi(p) ==
    /\ pc[p] = "read_certifi"
    /\ IF OpenFails(fs[CertifiPath])
       THEN Raise(p, Error("FileNotFoundError", "read_certifi"))
       ELSE /\ certifi_cacert' = [certifi_cacert EXCEPT ![p] = TextRead(fs[CertifiPath].data)]
            /\ pc' = [pc EXCEPT ![p] = "open_out"]
            /\ UNCHANGED <<err, lport, deadline, clock, mitmproxy_cacert>>
    /\ UNCHANGED <<callers, input, self_env, sock, port, argv, child, signals, kills,
                   requests, offset, cafile, raising, fs, endpoint, fsAtStart, osPort,
                   racy, returned,
                   killError, written, overlap, binds, spawns, poll, serial>>

\* with open(path, "w") as f: the file is created or truncated, or the open is
\* refused (a directory that cannot be written)
OpenOut(p) ==
    /\ pc[p] = "open_out"
    /\ \/ /\ fs' = [fs EXCEPT ![BundlePath(self_env[p], BundleRel)] = OpenForWrite(@)]
          /\ offset' = [offset EXCEPT ![p] = 0]
          /\ overlap' = (overlap \/ \E o \in Calls \ {p} : offset[o] # Closed)
          /\ pc' = [pc EXCEPT ![p] = "write_mitm"]
          /\ UNCHANGED <<err, lport, deadline, clock, mitmproxy_cacert, certifi_cacert>>
       \/ /\ Raise(p, Error("PermissionError", "open_out"))
          /\ UNCHANGED <<fs, offset, overlap>>
    /\ UNCHANGED <<callers, input, self_env, sock, port, argv, child, signals, kills,
                   requests, cafile, raising, endpoint, fsAtStart, osPort, racy,
                   returned,
                   killError, written, binds, spawns, poll, serial>>

\* the separator written between the two certificates
Separator == <<LF>>

\* the text each f.write of the with block is given
Written(step, mitm, certifi) ==
    CASE step = "write_mitm" -> mitm
      [] step = "write_newline" -> Separator
      [] step = "write_certifi" -> certifi

AfterWrite(step) ==
    CASE step = "write_mitm" -> "write_newline"
      [] step = "write_newline" -> "write_certifi"
      [] step = "write_certifi" -> "close_out"

\* f.write(mitmproxy_cacert); f.write("\n"); f.write(certifi_cacert): each at
\* the file position of this call's own descriptor
Write(p) ==
    /\ pc[p] \in {"write_mitm", "write_newline", "write_certifi"}
    /\ LET data == TextWrite(Written(pc[p], mitmproxy_cacert[p], certifi_cacert[p]))
       IN /\ fs' = [fs EXCEPT ![BundlePath(self_env[p], BundleRel)] =
                      File(WriteAt(@.data, offset[p], data))]
          /\ offset' = [offset EXCEPT ![p] = @ + Len(data)]
          /\ written' = [written EXCEPT ![p] = @ \o data]
    /\ pc' = [pc EXCEPT ![p] = AfterWrite(pc[p])]
    /\ UNCHANGED <<callers, input, self_env, sock, lport, port, argv, child, signals,
                   kills, clock, deadline, requests, mitmproxy_cacert, certifi_cacert,
                   cafile, raising, err, endpoint, fsAtStart, osPort, racy, returned,
                   killError, overlap, binds, spawns, poll, serial>>

\* the with block is left: the file is closed
CloseOut(p) ==
    /\ pc[p] = "close_out"
    /\ offset' = [offset EXCEPT ![p] = Closed]
    /\ pc' = [pc EXCEPT ![p] = "return"]
    /\ UNCHANGED <<callers, input, self_env, sock, lport, port, argv, child, signals,
                   kills, clock, deadline, requests, mitmproxy_cacert, certifi_cacert,
                   cafile, raising, err, fs, endpoint, fsAtStart, osPort, racy,
                   returned,
                   killError, written, overlap, binds, spawns, poll, serial>>

\* return path -- self.cafile = ...; the constructor returns the handle
Return(p) ==
    /\ pc[p] = "return"
    /\ cafile' = [cafile EXCEPT ![p] = BundlePath(self_env[p], BundleRel)]
    /\ pc' = [pc EXCEPT ![p] = "done"]
    /\ returned' = Append(returned, p)
    /\ DropLocals(p)
    /\ UNCHANGED <<callers, input, self_env, sock, port, argv, child, signals, kills,
                   requests, offset, raising, err, fs, endpoint, fsAtStart, osPort,
                   racy,
                   killError, written, overlap, binds, spawns, poll, serial>>

\* ------------------------------------------------------------------ kill
\* Popen.kill(): poll() first; a child that has exited is not signalled
SignalAlways(state) == TRUE
SignalSent(state) == state \in {"spawned", "listening"}

\* kill returns once the signal is sent: the child is as it was, and exits
\* in a step of its own
ChildWaitedFor(state) == IF state \in {"spawned", "listening"} THEN "exited" ELSE state
ChildAfterKill(state) == state

\* the caller has an object to call kill on once __init__ has returned; a
\* call that raised left the caller none
ConstructedOrFailed(state) == state \in {"done", "failed"}
Constructed(state) == state = "done"

\* self.proc.kill()
Kill(p) ==
    /\ Constructed(pc[p])
    /\ kills[p] < MaxKills
    /\ kills' = [kills EXCEPT ![p] = @ + 1]
    /\ signals' = [signals EXCEPT ![p] = IF SignalSent(child[p]) THEN @ + 1 ELSE @]
    /\ killError' = [killError EXCEPT ![p] = @ \/ (SignalSent(child[p]) /\ child[p] = "exited")]
    /\ child' = [child EXCEPT ![p] = ChildAfterKill(@)]
    /\ UNCHANGED <<pc, callers, input, self_env, sock, lport, port, argv, clock,
                   deadline, requests, mitmproxy_cacert, certifi_cacert, offset,
                   cafile, raising, err, fs, endpoint, fsAtStart, osPort, racy,
                   returned,
                   written, overlap, binds, spawns, poll, serial>>

\* ------------------------------------------------------------- the child
\* the child binds --listen-port: it listens if no socket holds the port
ChildBind(p) ==
    /\ child[p] = "spawned"
    /\ child' = [child EXCEPT ![p] = IF port[p] \in FreePorts THEN "listening" ELSE "exited"]
    /\ UNCHANGED <<pc, callers, input, self_env, sock, lport, port, argv, signals,
                   kills, clock, deadline, requests, mitmproxy_cacert, certifi_cacert,
                   offset, cafile, raising, err, fs, endpoint, fsAtStart, osPort, racy,
                   returned,
                   killError, written, overlap, binds, spawns, poll, serial>>

\* the child exits: killed, or on its own
ChildExit(p) ==
    /\ child[p] \in {"spawned", "listening"}
    /\ child' = [child EXCEPT ![p] = "exited"]
    /\ UNCHANGED <<pc, callers, input, self_env, sock, lport, port, argv, signals,
                   kills, clock, deadline, requests, mitmproxy_cacert, certifi_cacert,
                   offset, cafile, raising, err, fs, endpoint, fsAtStart, osPort, racy,
                   returned,
                   killError, written, overlap, binds, spawns, poll, serial>>

\* one step of a constructor call
Step(p) ==
    \/ Start(p) \/ Bind(p) \/ CloseSocket(p) \/ Popen(p)
    \/ WaitEnter(p) \/ LoopTest(p) \/ Urlopen(p) \/ Sleep(p) \/ Propagate(p)
    \/ ReadMitm(p) \/ ReadCertifi(p) \/ OpenOut(p) \/ Write(p) \/ CloseOut(p)
    \/ Return(p)

Next ==
    \E p \in Calls : Step(p) \/ Kill(p) \/ ChildBind(p) \/ ChildExit(p)

\* ------------------------------------------------------------ the inputs
Env == [HOME |-> Home]
DefaultInput == [executable |-> "mitmdump", args |-> <<>>, env |-> Env]
AllInputs == {[executable |-> e, args |-> a, env |-> Env] : e \in Executables, a \in ArgLists}

\* the first call takes its input from ins, the others the default
OneCaller(ins) == {[p \in Calls |-> IF p = "A" THEN i ELSE DefaultInput] : i \in ins}

Files(m, c, b) ==
    [f \in Paths |->
       IF f = MitmCaPath(Env) THEN m ELSE IF f = CertifiPath THEN c ELSE b]

\* an old bundle longer than any the inputs produce
OldBundle == [i \in 1 .. (2 * MaxLen + 3) |-> "o"]
PriorBundles == {Absent, File(<<"o">>), File(OldBundle)}
DefaultFiles == Files(File(<<"a", LF>>), File(<<"a", "a", LF>>), Absent)
InputFiles == {File(t) : t \in Texts(MaxLen)} \cup {Absent}
AllFiles ==
    {Files(m, c, b) : m \in InputFiles, c \in InputFiles, b \in PriorBundles}

\* the attempt at which a fake endpoint never answers within the budget
NeverWithin == WaitTimeout \div SleepTime + 1
Endpoints == {FakeEndpoint(n) : n \in 1 .. NeverWithin} \cup {RealEndpoint}

\* one call at a time, over every input, every file content, every endpoint
Init ==
    \/ InitWith({"A"}, TRUE, OneCaller(AllInputs), {DefaultFiles}, {FakeEndpoint(2), RealEndpoint})
    \/ InitWith({"A"}, TRUE, OneCaller({DefaultInput}), AllFiles, {FakeEndpoint(1)})
    \/ InitWith({"A"}, TRUE, OneCaller({DefaultInput}), {DefaultFiles}, Endpoints)

Spec == Init /\ [][Next]_vars

\* one call against every endpoint; the constructor is sequential code whose
\* blocking calls all return, so each of its steps is eventually taken
InitPoll == InitWith({"A"}, TRUE, OneCaller({DefaultInput}), {DefaultFiles}, Endpoints)
SpecFair == InitPoll /\ [][Next]_vars /\ \A p \in Calls : WF_vars(Step(p))

\* two calls with the same home directory, run concurrently
ConcFiles ==
    {Files(File(<<"a", "a">>), File(<<"a", CR, LF>>), b) : b \in {Absent, File(OldBundle)}}
InitConc ==
    InitWith(Calls, FALSE, {[p \in Calls |-> DefaultInput]}, ConcFiles,
             {FakeEndpoint(2), BrokenEndpoint(1)})

SpecConc == InitConc /\ [][Next]_vars

\* two calls with the same home directory, one after the other, over proxy
\* CA texts with each kind of line end and every prior bundle
SeqFiles ==
    {Files(File(m), File(<<"a", CR, LF>>), b) :
        m \in {<<"a", LF>>, <<"a", CR>>, <<CR, LF>>}, b \in PriorBundles}
InitSeq ==
    InitWith(Calls, TRUE, {[p \in Calls |-> DefaultInput]}, SeqFiles,
             {FakeEndpoint(1), BrokenEndpoint(1)})

SpecSeq == InitSeq /\ [][Next]_vars

\* ------------------------------------------------------------ the claims
OutPath == "/home/u/.ca-cert.pem"
MitmPath == "/home/u/.mitmproxy/mitmproxy-ca-cert.pem"
HasHandle(p) == pc[p] = "done"
NoCarriageReturn(t) == \A i \in 1 .. Len(t) : t[i] # CR

\* C1: a start that returns a handle spawned exactly the command line
\* executable, "--listen-port", the port, "--anticache", then the caller's extra
\* arguments in their order, and the port on the command line is the one the
\* handle records, which is the one read back from the probe socket.
C1_CommandLine ==
    \A p \in Calls :
        HasHandle(p) =>
            /\ argv[p] = <<input[p].executable, "--listen-port", Str(port[p]), "--anticache">>
                         \o input[p].args
            /\ port[p] = osPort[p]
            /\ port[p] \in Ports

C1_Witness ==
    /\ HasHandle("A")
    /\ input["A"].args = <<"--set", "x=1">>
    /\ argv["A"] = <<"mitmdump", "--listen-port", "10", "--anticache", "--set", "x=1">>

\* C2 as claimed: after generateBundle the output file is exactly the bytes of
\* the proxy CA file, one newline, the bytes of the system bundle.
C2_Original ==
    \A p \in Calls :
        HasHandle(p) =>
            fs[OutPath] = File(fs[MitmPath].data \o <<LF>> \o fs[CertifiPath].data)

\* C2 as amended: the output file is the proxy CA text, one newline, the system
\* bundle text, each as read in text mode (every "\r\n" and lone "\r" of the
\* input read as "\n"); for inputs without a carriage return that is exactly
\* the input bytes.  Nothing of an older file is left and nothing is cut.
C2_Bundle ==
    \A p \in Calls :
        HasHandle(p) =>
            /\ fs[OutPath] =
                 File(TextRead(fs[MitmPath].data) \o <<LF>> \o TextRead(fs[CertifiPath].data))
            /\ NoCarriageReturn(fs[OutPath].data)
            /\ (NoCarriageReturn(fs[MitmPath].data) /\ NoCarriageReturn(fs[CertifiPath].data))
                  => fs[OutPath] = File(fs[MitmPath].data \o <<LF>> \o fs[CertifiPath].data)

C2_Witness ==
    /\ HasHandle("A")
    /\ fsAtStart["A"] = File(OldBundle)
    /\ fs[MitmPath] = File(<<"a", LF>>)
    /\ fs[CertifiPath] = File(<<LF, "a">>)
    /\ fs[OutPath] = File(<<"a", LF, LF, LF, "a">>)

\* C3: with no proxy CA file, start returns no handle, the error that leaves
\* bundle generation is the missing-file error of that read, and the bundle
\* file stays as it was when the call began (absent, or with its old content).
C3_MissingCa ==
    \A p \in callers :
        (pc[p] # "idle" /\ ~fs[MitmPath].exists) =>
            /\ ~HasHandle(p)
            /\ pc[p] \notin {"read_certifi", "open_out", "write_mitm", "write_newline",
                             "write_certifi", "close_out", "return"}
            /\ fs[OutPath] = fsAtStart[p]
            /\ (pc[p] = "failed" /\ err[p].at \notin {"bind", "popen", "wait"})
                  => err[p] = Error("FileNotFoundError", "read_mitm")

C3_Witness ==
    /\ pc["A"] = "failed"
    /\ err["A"] = Error("FileNotFoundError", "read_mitm")
    /\ ~fs[MitmPath].exists
    /\ fs[OutPath] = File(OldBundle)
    /\ child["A"] # "none"

\* C4: against an endpoint that refuses attempts 1..N-1 and answers 200 at
\* attempt N, a wait that is entered is left by returning, never by an
\* exception and never by hanging, whether N comes within the budget or not.
C4_PollTerminates ==
    \A p \in Calls :
        (endpoint.kind = "fake" /\ pc[p] = "wait") ~> (pc[p] = "read_mitm")

C4_Witness ==
    /\ endpoint = FakeEndpoint(WaitTimeout)
    /\ pc["A"] = "read_mitm"
    /\ requests["A"] = WaitTimeout

\* C5 as claimed: no error of a poll attempt leaves wait and reaches the caller
\* of start.
C5_Swallowed ==
    \A p \in Calls : err[p].at # "wait"

\* C6: kill never raises, and a kill of a child that has exited sends no signal.
C6_KillNoop ==
    [][\A p \in Calls :
         kills'[p] # kills[p] =>
            /\ ~killError'[p]
            /\ pc'[p] = pc[p] /\ err'[p] = err[p]
            /\ child[p] = "exited" => signals'[p] = signals[p]
            /\ child[p] # "exited" => signals'[p] = signals[p] + 1]_vars

C6_Witness ==
    /\ kills["A"] = 2
    /\ signals["A"] = 1
    /\ child["A"] = "exited"
    /\ ~killError["A"]

\* C7 as claimed: two concurrent starts always end with distinct ports.
C7_Original ==
    (HasHandle("A") /\ HasHandle("B")) => port["A"] # port["B"]

\* C7 as amended: the two ports are distinct unless one call bound its probe
\* socket to a port the other call had already been given and no longer held
\* (probe socket closed, child not listening on it): only in that window can
\* both handles record the same port.
C7_DistinctUnlessReleased ==
    (HasHandle("A") /\ HasHandle("B") /\ ~racy["A"] /\ ~racy["B"])
        => port["A"] # port["B"]

C7_Witness ==
    /\ HasHandle("A") /\ HasHandle("B")
    /\ ~racy["A"] /\ ~racy["B"]
    /\ port["A"] # port["B"]
    /\ overlap

\* C8: once two concurrent starts on the same home directory have both
\* returned, the bundle file is exactly the complete bundle (proxy CA, newline,
\* system CA) that the call which returned last wrote: no mixture, no cut.
C8_LastWriterWins ==
    (HasHandle("A") /\ HasHandle("B")) =>
        /\ fs[OutPath] = File(written[returned[Len(returned)]])
        /\ fs[OutPath] =
             File(TextRead(fs[MitmPath].data) \o <<LF>> \o TextRead(fs[CertifiPath].data))

C8_Witness ==
    /\ HasHandle("A") /\ HasHandle("B")
    /\ overlap
    /\ returned = <<"B", "A">>
    /\ fsAtStart["A"] = File(OldBundle)
    /\ fs[OutPath] = File(<<"a", "a", LF, "a", LF>>)

\* C9: whether the poll saw a success or ran out of budget, start goes on to
\* write the bundle: a handle records <home>/.ca-cert.pem, that file is
\* complete and closed when start returns, and running out of budget is never
\* what makes start fail.
C9_BundleRecorded ==
    \A p \in Calls :
        /\ HasHandle(p) =>
              /\ cafile[p] = OutPath
              /\ offset[p] = Closed
              /\ fs[OutPath] = File(written[p])
              /\ written[p] =
                   TextRead(fs[MitmPath].data) \o <<LF>> \o TextRead(fs[CertifiPath].data)
        /\ ~HasHandle(p) => cafile[p] = NoPath
        /\ err[p].at = "wait" => err[p].type \in {"TimeoutError", "ConnectionResetError"}

C9_Witness ==
    /\ HasHandle("A")
    /\ endpoint = FakeEndpoint(NeverWithin)
    /\ requests["A"] = WaitTimeout
    /\ cafile["A"] = OutPath
    /\ fs[OutPath] = File(<<"a", LF, LF, "a", "a", LF>>)

\* C10: a failed bind and a failed spawn leave start at once, each tried once:
\* after a failed bind no child was spawned, after a failed spawn no readiness
\* request was issued, and in both cases the bundle file is as it was.
C10_FailFast ==
    \A p \in Calls :
        /\ err[p].at = "bind" =>
              /\ pc[p] = "failed"
              /\ binds[p] = 1 /\ spawns[p] = 0
              /\ child[p] = "none" /\ argv[p] = <<>>
              /\ requests[p] = 0
              /\ fs[OutPath] = fsAtStart[p]
        /\ err[p].at = "popen" =>
              /\ pc[p] = "failed"
              /\ binds[p] = 1 /\ spawns[p] = 1
              /\ child[p] = "none"
              /\ requests[p] = 0
              /\ fs[OutPath] = fsAtStart[p]

C10_Witness ==
    /\ err["A"] = Error("FileNotFoundError", "popen")
    /\ input["A"].executable = "nosuch"
    /\ port["A"] \in Ports
    /\ requests["A"] = 0

\* the call is inside wait, or at the statement wait returned or raised to
InLoop(p) == pc[p] \in {"loop", "urlopen", "sleep_break", "sleep_next", "sleep_raise"}
LeftWait(p) == pc[p] \in {"read_mitm", "propagate"}
WaitEntered(p) == deadline[p] - WaitTimeout

\* C11 as claimed: no attempt starts once 10 units have passed since wait was
\* entered, and wait is left within 10 + 5 + 1 = 16 units of being entered.
C11_Original ==
    \A p \in Calls :
        /\ pc[p] = "urlopen" => clock[p] < WaitEntered(p) + WaitTimeout
        /\ (InLoop(p) \/ LeftWait(p)) =>
              clock[p] <= WaitEntered(p) + WaitTimeout + RequestTimeout + SleepTime

\* C11 as amended: no attempt starts once 10 units have passed since wait was
\* entered, and wait is left one sleep after its last attempt ended; the timeout
\* of 5 bounds each blocking socket operation of an attempt, so with at most k
\* operations in an attempt wait is left within 10 + 5k + 1 units.
C11_Budget ==
    \A p \in Calls :
        /\ pc[p] = "urlopen" => clock[p] < WaitEntered(p) + WaitTimeout
        /\ (InLoop(p) \/ LeftWait(p)) =>
              /\ clock[p] <= WaitEntered(p) + WaitTimeout + MaxOps * RequestTimeout + SleepTime
              /\ poll[p].started < WaitEntered(p) + WaitTimeout
              /\ poll[p].ended <= poll[p].started + MaxOps * RequestTimeout
        /\ (LeftWait(p) /\ poll[p].sleeps > 0) => clock[p] = poll[p].ended + SleepTime

C11_Witness ==
    /\ pc["A"] = "read_mitm"
    /\ poll["A"].started = WaitTimeout - 1
    /\ clock["A"] = WaitTimeout - 1 + MaxOps * RequestTimeout + SleepTime
    /\ clock["A"] > WaitEntered("A") + WaitTimeout + RequestTimeout + SleepTime

Succeeded(out) == out.type = "response" /\ out.status < 400
ErrorStatusOf(out) ==
    \/ out.type = "response" /\ out.status >= 400
    \/ out.type = "HTTPError"
AtSleep(p) == pc[p] \in {"sleep_break", "sleep_next", "sleep_raise"}

\* C12: the loop is left for a response with status below 400 and for nothing
\* else short of the budget: once an attempt has succeeded no request follows
\* in that wait, and after a status of 400 or above (returned, or raised as
\* HTTPError) the loop goes round again.
C12_FirstSuccess ==
    \A p \in Calls :
        /\ pc[p] = "sleep_break" => Succeeded(poll[p].last)
        /\ Succeeded(poll[p].last) => pc[p] \in {"sleep_break", "read_mitm"}
        /\ (AtSleep(p) /\ ErrorStatusOf(poll[p].last)) => pc[p] = "sleep_next"
        /\ (pc[p] = "read_mitm" /\ poll[p].sleeps > 0 /\ ~Succeeded(poll[p].last))
              => clock[p] >= WaitEntered(p) + WaitTimeout

C12_Witness ==
    /\ pc["A"] = "urlopen"
    /\ poll["A"].last = Response(400)
    /\ requests["A"] = 1

BundleOpen(p) == offset[p] # Closed

\* C13: the steps of one start come in a fixed order: the probe socket is
\* closed before the child is spawned and is never open while the child
\* exists, the child is spawned before the first readiness request, and the
\* bundle file is opened for writing only after the poll has ended.
C13_Order ==
    \A p \in Calls :
        /\ sock[p] # NoPort => (pc[p] = "close" /\ spawns[p] = 0 /\ child[p] = "none")
        /\ child[p] # "none" => (sock[p] = NoPort /\ port[p] = osPort[p])
        /\ (requests[p] > 0 \/ InLoop(p)) => (spawns[p] = 1 /\ child[p] # "none")
        /\ (BundleOpen(p) \/ written[p] # <<>>) =>
              /\ pc[p] \in {"write_mitm", "write_newline", "write_certifi", "close_out",
                            "return", "done"}
              /\ child[p] # "none"
        /\ (InLoop(p) \/ pc[p] \in {"wait", "propagate", "read_mitm", "read_certifi",
                                    "open_out"}) =>
              (~BundleOpen(p) /\ written[p] = <<>> /\ fs[OutPath] = fsAtStart[p])

C13_Witness ==
    /\ pc["A"] = "write_newline"
    /\ BundleOpen("A")
    /\ requests["A"] = 2
    /\ child["A"] = "listening"
    /\ sock["A"] = NoPort

\* some call has the bundle open, between its truncation and its close
BeingWritten == \E q \in Calls : BundleOpen(q)
Generated == \E p \in Calls : HasHandle(p)
FromOldBundle(t) == \E i \in 1 .. Len(t) : t[i] = "o"

\* C14 as claimed: whatever the output file held before, after one
\* generateBundle or several in succession it holds the bytes of the proxy CA
\* file, one newline, the bytes of the system bundle.
C14_Original ==
    (Generated /\ ~BeingWritten) =>
        fs[OutPath] = File(fs[MitmPath].data \o <<LF>> \o fs[CertifiPath].data)

\* C14 as amended: whatever the output file held before (nothing, less or
\* more than the new bundle), after one generateBundle or several in
\* succession over unchanged inputs it holds the proxy CA text, one newline,
\* the system bundle text, each as read in text mode; no byte of the prior
\* content is left and nothing is appended twice, so a further call leaves
\* the file as the call before left it.
C14_Idempotent ==
    /\ (Generated /\ ~BeingWritten) =>
          /\ fs[OutPath] =
               File(TextRead(fs[MitmPath].data) \o <<LF>> \o TextRead(fs[CertifiPath].data))
          /\ ~FromOldBundle(fs[OutPath].data)
          /\ Len(fs[OutPath].data) <= Len(fs[MitmPath].data) + 1 + Len(fs[CertifiPath].data)
    /\ \A p, q \in Calls :
          (HasHandle(p) /\ HasHandle(q) /\ p # q /\ returned = <<p, q>> /\ ~BeingWritten) =>
              fs[OutPath] = fsAtStart[q]

C14_Witness ==
    /\ returned = <<"A", "B">>
    /\ fs[MitmPath] = File(<<"a", CR>>)
    /\ fsAtStart["A"] = File(OldBundle)
    /\ fsAtStart["B"] = File(<<"a", LF, LF, "a", LF>>)
    /\ fs[OutPath] = fsAtStart["B"]
    /\ ~BeingWritten

KillOf(p) == kills'[p] # kills[p]

\* C15: stop only asks for the end of the handle's own child: the step sends
\* at most one signal, to that child and to no other, returns with the child
\* as it was (it does not wait for the exit), and leaves the port, the
\* environment and the certificate path of every handle, and every file on
\* disk, unchanged.
C15_KillFrame ==
    [][\A p \in Calls :
         KillOf(p) =>
            /\ child' = child
            /\ signals'[p] \in {signals[p], signals[p] + 1}
            /\ \A o \in Calls \ {p} : signals'[o] = signals[o] /\ kills'[o] = kills[o]
            /\ port' = port /\ self_env' = self_env /\ cafile' = cafile
            /\ fs' = fs /\ offset' = offset
            /\ pc' = pc]_vars

\* a kill has returned and its child is still running, next to another
\* handle whose child no signal was sent to
C15_Witness ==
    /\ kills["A"] = 1 /\ signals["A"] = 1
    /\ child["A"] = "listening"
    /\ port["A"] # NoPort /\ self_env["A"] = Env /\ cafile["A"] = OutPath
    /\ fs[OutPath].exists
    /\ HasHandle("B") /\ child["B"] = "listening" /\ signals["B"] = 0

FailedAfterSpawn(p) == pc[p] = "failed" /\ err[p].at \notin {"bind", "popen"}
Running(p) == child[p] \in {"spawned", "listening"}

\* C16 as claimed: when start fails after the spawn, no signal was sent to the
\* child, the child is running when the error reaches the caller, and there
\* is no handle to stop it through.
C16_Original ==
    [][\A p \in Calls :
         (pc[p] # "failed" /\ FailedAfterSpawn(p)') =>
            /\ signals'[p] = 0
            /\ Running(p)'
            /\ cafile'[p] = NoPath]_vars

\* C16 as amended: when start fails after the spawn (an exception leaving the
\* readiness poll, a missing proxy CA file, an unreadable system bundle, a
\* failure to open the bundle for writing), start has sent no signal to the
\* child and the failing step leaves the child as it was: still running
\* unless it had exited on its own.  No handle exists then or later, so no
\* kill is ever called and no signal ever sent for that child.
C16_NoCleanup ==
    [][\A p \in Calls :
         FailedAfterSpawn(p)' =>
            /\ signals'[p] = 0 /\ kills'[p] = 0
            /\ ~HasHandle(p)' /\ cafile'[p] = NoPath
            /\ spawns'[p] = 1 /\ child'[p] # "none"
            /\ pc[p] # "failed" => child'[p] = child[p]]_vars

C16_Witness ==
    /\ FailedAfterSpawn("A")
    /\ err["A"] = Error("FileNotFoundError", "read_mitm")
    /\ child["A"] = "listening"
    /\ signals["A"] = 0 /\ kills["A"] = 0
    /\ cafile["A"] = NoPath

Attempted(p) == requests[p] > 0
BetweenAttempts(p) == pc[p] \in {"loop", "urlopen"}

\* C17: every attempt of the readiness poll is followed by exactly one sleep
\* of 1 unit whatever its outcome: while the sleep of an attempt is pending
\* one sleep fewer than attempts has been taken, anywhere else in and after
\* the poll as many sleeps as attempts, the last of them ending 1 unit after
\* its attempt ended.  So wait returns, or lets the exception through, 1 unit
\* after the last attempt, and an attempt starts at least 1 unit after the
\* one before it started.
C17_SleepAfterEach ==
    \A p \in Calls :
        /\ AtSleep(p) =>
              /\ poll[p].sleeps = requests[p] - 1
              /\ clock[p] = poll[p].ended
        /\ ((BetweenAttempts(p) \/ LeftWait(p)) /\ Attempted(p)) =>
              /\ poll[p].sleeps = requests[p]
              /\ clock[p] = poll[p].ended + SleepTime
              /\ clock[p] >= poll[p].started + SleepTime
        /\ (pc[p] = "read_mitm" /\ Succeeded(poll[p].last)) =>
              clock[p] >= poll[p].ended + SleepTime
        /\ LeftWait(p) => Attempted(p)

\* an exception no handler caught is on its way out of wait, after the sleep
C17_Witness ==
    /\ pc["A"] = "propagate"
    /\ raising["A"] = "TimeoutError"
    /\ requests["A"] = 2 /\ poll["A"].sleeps = 2
    /\ poll["A"].ended = poll["A"].started + RequestTimeout
    /\ clock["A"] = poll["A"].ended + SleepTime

====
